---- MODULE Spec2Model ----
(***************************************************************************)
(* Volume assembly of the PACS volume viewer: handleFileUpload,            *)
(* createVolumeViewport and sortImages of src/components/VolumeViewer.     *)
(*                                                                         *)
(* Numbers: coordinates, depths and pixel samples are integers; spacings   *)
(* (sliceThickness, zSpacing) are rationals <<n, d>> in lowest terms with  *)
(* d > 0.  An optional field is <<>> when absent and <<v>> when present.   *)
(***************************************************************************)
EXTENDS Integers, Sequences, FiniteSets, TLC

\* Largest number of files in one upload.
MaxSlices == 3

VARIABLES
    files,      \* event.target.files: the selection the user uploads
    pc,         \* position of handleFileUpload: idle, decoding, binding, done
    status,     \* useState('Idle')
    frame,      \* locals of the running createVolumeViewport call
    volume,     \* the volume made by volumeLoader.createLocalVolume, or <<>>
    allocated,  \* a voxel buffer was allocated (new PixelDataConstructor)
    caught,     \* the error caught by handleFileUpload's catch, or <<>>
    now,        \* Date.now()
    selectedPreset,      \* useState: the preset chosen in the select box
    renderingEngineRef,  \* useRef: the engine of the last finished upload
    engines,    \* every RenderingEngine made so far, with its viewport
    toolGroup,  \* the tool group TOOL_GROUP_ID exists
    objectUrls, \* the object URLs created and not yet revoked
    mounted,    \* the component is mounted
    mounts,     \* how many times the component was mounted
    elementRef, \* useRef: the viewport element is attached
    cursorStyle,    \* useState: the cursor shown over the viewport
    calls,      \* the runs of handleFileUpload, each with its locals
    imageCache, \* cornerstone's cache: the decoded images it holds
    volumeCache,    \* cornerstone's cache: the volumes it holds
    isInitialized,  \* initCornerstone.ts: the module's latch
    initPending,    \* runs of initCornerstone waiting for coreInit
    initBodies,     \* how often each part of initCornerstone's body ran
    registry,   \* cornerstone: the registered loaders and the added tools
    presetChanges   \* how many times the user chose another preset

\* The state of the library and of the component's lifetime.
lifeVars ==
    <<mounted, mounts, elementRef, cursorStyle, calls, imageCache,
      volumeCache, isInitialized, initPending, initBodies, registry,
      presetChanges>>

vars == <<files, pc, status, frame, volume, allocated, caught, now,
          selectedPreset, renderingEngineRef, engines, toolGroup, objectUrls,
          lifeVars>>

----------------------------------------------------------------------------
\* Optional values and JavaScript's || on them.

Absent == <<>>
Some(v) == <<v>>
Present(o) == o /= <<>>

Abs(n) == IF n < 0 THEN -n ELSE n

RECURSIVE Gcd(_, _)
Gcd(a, b) == IF b = 0 THEN a ELSE Gcd(b, a % b)

\* The number n / d (d /= 0) in lowest terms.
Rat(n, d) ==
    LET g == Gcd(Abs(n), Abs(d))
        s == IF d < 0 THEN -1 ELSE 1
    IN  <<(s * n) \div g, (s * d) \div g>>

RatOne == Rat(1, 1)

\* `x || dflt` for an optional number x: the default replaces an absent
\* value and the falsy number 0.
OrNumber(x, dflt) == IF Present(x) /\ x[1][1] /= 0 THEN x[1] ELSE dflt

\* `x || dflt` for an optional array x: every array is truthy.
OrArray(x, dflt) == IF Present(x) THEN x[1] ELSE dflt

----------------------------------------------------------------------------
\* Typed arrays.

Kinds == {"Int16Array", "Float32Array"}

\* Storing the number v in an element of a typed array of kind k: an
\* Int16Array keeps v modulo 2^16 as a signed value, a Float32Array keeps
\* an integer of this size exactly.
ToElement(k, v) ==
    IF k = "Int16Array" THEN ((v + 32768) % 65536) - 32768 ELSE v

\* A typed array: its kind (constructor) and its elements.
\* new Constructor(n): n zeroed elements.
NewTypedArray(k, n) == [kind |-> k, elems |-> [i \in 1 .. n |-> 0]]

\* target.set(source, offset): RangeError when the source does not fit,
\* else every source element is converted to the target's kind and stored
\* from offset on.
SetFits(target, source, offset) ==
    offset + Len(source.elems) <= Len(target.elems)

TypedArraySet(target, source, offset) ==
    [target EXCEPT !.elems =
        [i \in 1 .. Len(target.elems) |->
            IF i > offset /\ i <= offset + Len(source.elems)
            THEN ToElement(target.kind, source.elems[i - offset])
            ELSE target.elems[i]]]

----------------------------------------------------------------------------
\* Decoded images (DicomImage).

\* image.getPixelData(): rows * columns samples, distinct for every file.
\* The samples of a Float32Array slice lie outside the Int16 range, so that
\* a conversion to Int16 is visible.
getPixelData(img) ==
    [kind |-> img.kind,
     elems |-> [k \in 1 .. img.rows * img.columns |->
                  (IF img.kind = "Float32Array" THEN 40000 ELSE 0)
                  + 100 * img.seed + k]]

\* Array.prototype.sort with a comparator on numeric keys, keys[i] being
\* the key of element i: stable, ascending.
SortStable(seq, keys) ==
    LET n == Len(seq)
        rank(i) == 1 + Cardinality({j \in 1 .. n :
                        \/ keys[j] < keys[i]
                        \/ keys[j] = keys[i] /\ j < i})
    IN  [r \in 1 .. n |-> seq[CHOOSE i \in 1 .. n : rank(i) = r]]

\* parseInt(file.name.match(/\d+/)?.[0] || '0')
FileNum(file) == IF Present(file.digits) THEN file.digits[1] ELSE 0

\* fileObjects.sort((a, b) => a.num - b.num)
fileObjects(fs) == SortStable(fs, [i \in 1 .. Len(fs) |-> FileNum(fs[i])])

\* `wadouri:${url}` of the i-th object URL.
ImageId(i) == <<"wadouri", i>>

\* imageLoader.loadAndCacheImage(id) of the file behind the id.
loadAndCacheImage(fs, i) ==
    [imageId |-> ImageId(i),
     seed |-> fs[i].seed,
     rows |-> fs[i].rows,
     columns |-> fs[i].columns,
     kind |-> fs[i].kind,
     origin |-> fs[i].origin,
     direction |-> fs[i].direction,
     sliceThickness |-> fs[i].sliceThickness,
     columnPixelSpacing |-> fs[i].columnPixelSpacing,
     rowPixelSpacing |-> fs[i].rowPixelSpacing,
     frameOfReferenceUID |-> fs[i].frameOfReferenceUID,
     modality |-> fs[i].modality,
     bitsAllocated |-> fs[i].bitsAllocated,
     bitsStored |-> fs[i].bitsStored,
     highBit |-> fs[i].highBit,
     pixelRepresentation |-> fs[i].pixelRepresentation,
     photometricInterpretation |-> fs[i].photometricInterpretation]

----------------------------------------------------------------------------
\* csUtilities.sortImageIdsAndGetSpacing, the sorter of the Cornerstone3D
\* library.

Cross(a, b) ==
    <<a[2] * b[3] - a[3] * b[2],
      a[3] * b[1] - a[1] * b[3],
      a[1] * b[2] - a[2] * b[1]>>

Dot(a, b) == a[1] * b[1] + a[2] * b[2] + a[3] * b[3]

\* metaData.get('imagePlaneModule', imageId): the plane tags of the decoded
\* image behind the id.
imagePlaneModule(images, id) ==
    LET img == images[id[2]]
    IN  [imagePositionPatient |-> img.origin,
         imageOrientationPatient |->
            IF Present(img.direction)
            THEN Some(SubSeq(img.direction[1], 1, 6))
            ELSE Absent]

\* The sorter can use its primary path: at least two slices, every one
\* carrying position and orientation.
HasPlaneTags(images, id) ==
    /\ Present(imagePlaneModule(images, id).imagePositionPatient)
    /\ Present(imagePlaneModule(images, id).imageOrientationPatient)

sortThrows(imageIds, images) ==
    \/ Len(imageIds) < 2
    \/ \E i \in 1 .. Len(imageIds) : ~HasPlaneTags(images, imageIds[i])

\* The scan-axis normal: the cross product of the orientation vectors of
\* the first slice.
scanAxisNormal(imageIds, images) ==
    LET iop == imagePlaneModule(images, imageIds[1]).imageOrientationPatient[1]
    IN  Cross(SubSeq(iop, 1, 3), SubSeq(iop, 4, 6))

\* The depth of a slice: its position projected on the normal.
Depth(images, normal, id) ==
    Dot(imagePlaneModule(images, id).imagePositionPatient[1], normal)

\* Defined when sortThrows is false: the ids in ascending depth (stable),
\* the average spacing and the position of the first sorted slice.
sortImageIdsAndGetSpacing(imageIds, images) ==
    LET normal == scanAxisNormal(imageIds, images)
        D(id) == Depth(images, normal, id)
        sorted == SortStable(imageIds,
                             [i \in 1 .. Len(imageIds) |-> D(imageIds[i])])
        n == Len(sorted)
    IN  [sortedImageIds |-> sorted,
         zSpacing |-> Rat(D(sorted[n]) - D(sorted[1]), n - 1),
         origin |-> imagePlaneModule(images, sorted[1]).imagePositionPatient[1]]

----------------------------------------------------------------------------
\* volumeRenderer: sortImages and the synchronous part of
\* createVolumeViewport between its two awaits.

NoError == "none"

\* new Map(imageIds.map((id, i) => [id, images[i]])).get(id): of several
\* entries with one key the last is kept.
imageMapGet(imageIds, images, id) ==
    images[CHOOSE i \in 1 .. Len(imageIds) :
              /\ imageIds[i] = id
              /\ \A j \in 1 .. Len(imageIds) : imageIds[j] = id => j <= i]

\* sortImages, returning the images in input order next to the library's
\* spacing and origin.
sortImages_InputOrder(imageIds, images) ==
    IF ~sortThrows(imageIds, images)
    THEN LET sortResult == sortImageIdsAndGetSpacing(imageIds, images)
         IN  [error |-> NoError,
              sortedImages |-> images,
              zSpacing |-> sortResult.zSpacing,
              volumeOrigin |-> sortResult.origin]
    ELSE [error |-> NoError,
          sortedImages |-> images,
          zSpacing |-> OrNumber(images[1].sliceThickness, RatOne),
          volumeOrigin |-> OrArray(images[1].origin, <<0, 0, 0>>)]

\* sortImages, taking the origin from the first input image on the sorted
\* path too.
sortImages_OriginOfFirstInput(imageIds, images) ==
    IF ~sortThrows(imageIds, images)
    THEN LET sortResult == sortImageIdsAndGetSpacing(imageIds, images)
         IN  [error |-> NoError,
              sortedImages |->
                 [r \in 1 .. Len(sortResult.sortedImageIds) |->
                    imageMapGet(imageIds, images, sortResult.sortedImageIds[r])],
              zSpacing |-> sortResult.zSpacing,
              volumeOrigin |-> OrArray(images[1].origin, <<0, 0, 0>>)]
    ELSE [error |-> NoError,
          sortedImages |-> images,
          zSpacing |-> OrNumber(images[1].sliceThickness, RatOne),
          volumeOrigin |-> OrArray(images[1].origin, <<0, 0, 0>>)]

\* sortImages, with a fallback that ignores sliceThickness.
sortImages_FallbackUnitSpacing(imageIds, images) ==
    IF ~sortThrows(imageIds, images)
    THEN LET sortResult == sortImageIdsAndGetSpacing(imageIds, images)
         IN  [error |-> NoError,
              sortedImages |->
                 [r \in 1 .. Len(sortResult.sortedImageIds) |->
                    imageMapGet(imageIds, images, sortResult.sortedImageIds[r])],
              zSpacing |-> sortResult.zSpacing,
              volumeOrigin |-> sortResult.origin]
    ELSE [error |-> NoError,
          sortedImages |-> images,
          zSpacing |-> RatOne,
          volumeOrigin |-> OrArray(images[1].origin, <<0, 0, 0>>)]

\* sortImages without its try/catch: a throw of the library leaves it.
sortImages_NoCatch(imageIds, images) ==
    IF ~sortThrows(imageIds, images)
    THEN LET sortResult == sortImageIdsAndGetSpacing(imageIds, images)
         IN  [error |-> NoError,
              sortedImages |->
                 [r \in 1 .. Len(sortResult.sortedImageIds) |->
                    imageMapGet(imageIds, images, sortResult.sortedImageIds[r])],
              zSpacing |-> sortResult.zSpacing,
              volumeOrigin |-> sortResult.origin]
    ELSE [error |-> "TypeError", sortedImages |-> <<>>,
          zSpacing |-> RatOne, volumeOrigin |-> <<0, 0, 0>>]

\* sortImages: the library's order, spacing and origin, or on any throw of
\* the library the input order with the first image's sliceThickness and
\* origin.  images[0] of no images is undefined: reading its
\* sliceThickness throws a TypeError out of the catch block.
sortImages(imageIds, images) ==
    IF ~sortThrows(imageIds, images)
    THEN LET sortResult == sortImageIdsAndGetSpacing(imageIds, images)
         IN  [error |-> NoError,
              sortedImages |->
                 [r \in 1 .. Len(sortResult.sortedImageIds) |->
                    imageMapGet(imageIds, images, sortResult.sortedImageIds[r])],
              zSpacing |-> sortResult.zSpacing,
              volumeOrigin |-> sortResult.origin]
    ELSE IF Len(images) = 0
    THEN [error |-> "TypeError", sortedImages |-> <<>>,
          zSpacing |-> RatOne, volumeOrigin |-> <<0, 0, 0>>]
    ELSE LET image0 == images[1]
         IN  [error |-> NoError,
              sortedImages |-> images,
              zSpacing |-> OrNumber(image0.sliceThickness, RatOne),
              volumeOrigin |-> OrArray(image0.origin, <<0, 0, 0>>)]

\* sortedImages.forEach((img, i) => scalarData.set(img.getPixelData(),
\* i * sliceSize)) from image i on: the filled buffer, or <<>> when a set
\* throws a RangeError.
RECURSIVE forEachSet(_, _, _, _)
forEachSet(scalarData, sortedImages, i, sliceSize) ==
    IF i > Len(sortedImages) THEN Some(scalarData)
    ELSE LET source == getPixelData(sortedImages[i])
             offset == (i - 1) * sliceSize
         IN  IF ~SetFits(scalarData, source, offset) THEN Absent
             ELSE forEachSet(TypedArraySet(scalarData, source, offset),
                             sortedImages, i + 1, sliceSize)

IdentityMat3 == <<1, 0, 0, 0, 1, 0, 0, 0, 1>>

\* new Float32Array(array)
Float32ArrayOf(array) ==
    [kind |-> "Float32Array",
     elems |-> [i \in 1 .. Len(array) |-> ToElement("Float32Array", array[i])]]

\* `x || dflt` for an optional string x: the empty string is falsy.
OrString(x, dflt) == IF Present(x) /\ x[1] /= "" THEN x[1] ELSE dflt

\* `x || dflt` for an optional integer x: 0 is falsy.
OrInteger(x, dflt) == IF Present(x) /\ x[1] /= 0 THEN x[1] ELSE dflt

\* The metadata block handed to createLocalVolume, at time t.
volumeMetadata(image0, t) ==
    [FrameOfReferenceUID |->
        OrString(image0.frameOfReferenceUID, "FOR-" \o ToString(t)),
     Modality |-> OrString(image0.modality, "CT"),
     Columns |-> image0.columns,
     Rows |-> image0.rows,
     SamplesPerPixel |-> 1,
     PixelSpacing |-> <<OrNumber(image0.columnPixelSpacing, RatOne),
                        OrNumber(image0.rowPixelSpacing, RatOne)>>,
     ImageOrientationPatient |->
        IF Present(image0.direction)
        THEN SubSeq(image0.direction[1], 1, 6)
        ELSE <<1, 0, 0, 0, 1, 0>>,
     BitsAllocated |-> OrInteger(image0.bitsAllocated, 16),
     BitsStored |-> OrInteger(image0.bitsStored, 12),
     HighBit |-> OrInteger(image0.highBit, 11),
     PixelRepresentation |-> OrInteger(image0.pixelRepresentation, 0),
     PhotometricInterpretation |->
        OrString(image0.photometricInterpretation, "MONOCHROME2"),
     voiLut |-> <<>>,
     VOILUTFunction |-> "LINEAR"]

\* sliceSizeOf, counting the bytes of a 16-bit slice instead of its samples.
sliceSizeOf_Bytes(image0) == 2 * image0.rows * image0.columns

\* The size of one z-slot: rows * columns of the first sorted image.
sliceSizeOf(image0) == image0.rows * image0.columns

\* PixelDataConstructor, always allocating 32-bit floats.
PixelDataConstructor_Float32(image0) == "Float32Array"

\* samplePixelData.constructor: the kind of the first sorted image's
\* pixel data.
PixelDataConstructor(image0) == getPixelData(image0).kind

\* localVolume, taking the z spacing from the first image's sliceThickness
\* instead of the sorter's zSpacing.
localVolume_ThicknessSpacing(volumeId, sorted, scalarData, t) ==
    LET image0 == sorted.sortedImages[1]
    IN  [volumeId |-> volumeId,
         dimensions |-> <<image0.columns, image0.rows, Len(sorted.sortedImages)>>,
         spacing |-> <<OrNumber(image0.columnPixelSpacing, RatOne),
                       OrNumber(image0.rowPixelSpacing, RatOne),
                       OrNumber(image0.sliceThickness, RatOne)>>,
         scalarData |-> scalarData,
         direction |-> Float32ArrayOf(OrArray(image0.direction, IdentityMat3)),
         origin |-> sorted.volumeOrigin,
         metadata |-> volumeMetadata(image0, t)]

\* The options handed to volumeLoader.createLocalVolume.
localVolume(volumeId, sorted, scalarData, t) ==
    LET image0 == sorted.sortedImages[1]
    IN  [volumeId |-> volumeId,
         dimensions |-> <<image0.columns, image0.rows, Len(sorted.sortedImages)>>,
         spacing |-> <<OrNumber(image0.columnPixelSpacing, RatOne),
                       OrNumber(image0.rowPixelSpacing, RatOne),
                       sorted.zSpacing>>,
         scalarData |-> scalarData,
         direction |-> Float32ArrayOf(OrArray(image0.direction, IdentityMat3)),
         origin |-> sorted.volumeOrigin,
         metadata |-> volumeMetadata(image0, t)]

\* createVolumeViewport from the resolution of Promise.all at time t to the
\* await of setVolumesForViewports: sort, allocate, fill, create the volume
\* under the volumeId made before the decodes were started.  The
\* result names the error thrown on the way, whether the buffer was
\* allocated, and the locals and the volume when nothing was thrown.
assemble(volumeId, imageIds, images, t) ==
    LET sorted == sortImages(imageIds, images)
        failed(e, alloc) ==
            [error |-> e, allocated |-> alloc, sorted |-> sorted,
             volume |-> Absent]
    IN  IF sorted.error /= NoError THEN failed(sorted.error, FALSE)
        ELSE LET image0 == sorted.sortedImages[1]
                 sliceSize == sliceSizeOf(image0)
                 scalarData ==
                    NewTypedArray(PixelDataConstructor(image0),
                                  sliceSize * Len(sorted.sortedImages))
                 filled == forEachSet(scalarData, sorted.sortedImages, 1,
                                      sliceSize)
             IN  IF ~Present(filled) THEN failed("RangeError", TRUE)
                 ELSE [error |-> NoError, allocated |-> TRUE,
                       sorted |-> sorted,
                       volume |-> Some(localVolume(volumeId, sorted,
                                                filled[1], t))]

----------------------------------------------------------------------------
\* The files a user can select.

Axial == <<1, 0, 0, 0, 1, 0, 0, 0, 1>>
Sagittal == <<0, 1, 0, 0, 0, 1, 1, 0, 0>>

\* A slice position at height z; along the sagittal normal the slices lie
\* in the opposite order.
PositionAt(z) == <<30 - z, 0, z>>

BaseFile ==
    [seed |-> 0,
     digits |-> Absent,
     rows |-> 2,
     columns |-> 2,
     kind |-> "Int16Array",
     origin |-> Some(PositionAt(10)),
     direction |-> Some(Axial),
     sliceThickness |-> Absent,
     columnPixelSpacing |-> Some(Rat(1, 2)),
     rowPixelSpacing |-> Some(Rat(1, 2)),
     frameOfReferenceUID |-> Some("1.2.3"),
     modality |-> Some("MR"),
     bitsAllocated |-> Some(16),
     bitsStored |-> Some(16),
     highBit |-> Some(15),
     pixelRepresentation |-> Some(1),
     photometricInterpretation |-> Some("MONOCHROME1")]

\* Slices that differ in their plane tags.
GeometrySlices ==
    {[BaseFile EXCEPT !.origin = o, !.direction = d] :
        o \in {Absent, Some(PositionAt(10)), Some(PositionAt(20)),
                Some(PositionAt(30))},
        d \in {Absent, Some(Axial), Some(Sagittal)}}

\* Slices that differ in what the fallback reads.
ThicknessSlices ==
    {[BaseFile EXCEPT !.origin = g[1], !.direction = g[2],
                      !.sliceThickness = t] :
        g \in {<<Absent, Absent>>, <<Some(PositionAt(20)), Some(Axial)>>},
        t \in {Absent, Some(Rat(0, 1)), Some(Rat(5, 2))}}

\* Slices that differ in their pixel grid and pixel kind.
PixelSlices ==
    {[BaseFile EXCEPT !.origin = o, !.rows = g[1], !.columns = g[2],
                      !.kind = k] :
        o \in {Some(PositionAt(10)), Some(PositionAt(20))},
        g \in {<<4, 4>>, <<2, 2>>, <<1, 4>>},
        k \in Kinds}

\* Slices that differ in the number in their file name.
NamedSlices ==
    {[BaseFile EXCEPT !.digits = n, !.origin = o] :
        n \in {Absent, Some(1), Some(2)},
        o \in {Some(PositionAt(10)), Some(PositionAt(20))}}

\* A left-handed basis: unit rows at right angles, the third the opposite
\* of the cross product of the first two.
Mirrored == <<1, 0, 0, 0, 1, 0, 0, 0, -1>>

\* Slices without position that differ in their optional tags: none
\* carried, the numbers carried as 0, the spacings carried negative.
TagSlices ==
    {[BaseFile EXCEPT !.origin = Absent, !.direction = Absent,
                      !.sliceThickness = Absent,
                      !.columnPixelSpacing = Absent,
                      !.rowPixelSpacing = Absent,
                      !.frameOfReferenceUID = Absent, !.modality = Absent,
                      !.bitsAllocated = Absent, !.bitsStored = Absent,
                      !.highBit = Absent, !.pixelRepresentation = Absent,
                      !.photometricInterpretation = Absent],
     [BaseFile EXCEPT !.origin = Absent, !.direction = Some(Axial),
                      !.sliceThickness = Some(Rat(0, 1)),
                      !.columnPixelSpacing = Some(Rat(0, 1)),
                      !.rowPixelSpacing = Some(Rat(0, 1)),
                      !.bitsAllocated = Some(0), !.bitsStored = Some(0),
                      !.highBit = Some(0), !.pixelRepresentation = Some(0)],
     [BaseFile EXCEPT !.origin = Absent, !.direction = Some(Mirrored),
                      !.sliceThickness = Some(Rat(-5, 2)),
                      !.columnPixelSpacing = Some(Rat(-1, 2)),
                      !.rowPixelSpacing = Some(Rat(3, 4))]}

SeqsUpTo(S, n) == UNION {[1 .. m -> S] : m \in 0 .. n}

\* The i-th selected file has the pixel content i.
WithSeeds(fs) == [i \in 1 .. Len(fs) |-> [fs[i] EXCEPT !.seed = i]]

Selections ==
    {WithSeeds(fs) :
        fs \in SeqsUpTo(GeometrySlices, MaxSlices)
                \cup SeqsUpTo(ThicknessSlices, MaxSlices)
                \cup SeqsUpTo(PixelSlices, MaxSlices)
                \cup SeqsUpTo(NamedSlices, MaxSlices)
                \cup SeqsUpTo(TagSlices, MaxSlices)}

----------------------------------------------------------------------------
\* The component.

\* What cornerstone holds before initCornerstone ran, and after its body
\* ran to the end: the loader of the wadouri scheme, the volume loader for
\* unknown schemes and the three tools.
NoRegistry == [imageLoaders |-> {}, unknownVolumeLoader |-> FALSE, tools |-> {}]

Registered ==
    [imageLoaders |-> {"wadouri"}, unknownVolumeLoader |-> TRUE,
     tools |-> {"TrackballRotate", "Zoom", "Pan"}]

NoFrame ==
    [volumeId |-> "", renderingEngine |-> 0, selectedPreset |-> "",
     imageIds |-> <<>>, objects |-> <<>>, images |-> <<>>, sorted |-> Absent]

\* new RenderingEngine(RENDERING_ENGINE_ID) after enableElement: a live
\* engine whose 3D viewport shows no volume and has no properties set.
NewEngine ==
    [destroyed |-> FALSE, destroyCalls |-> 0, updatedAfterDestroy |-> FALSE,
     volumeId |-> Absent, blendMode |-> Absent,
     preset |-> Absent, interpolationType |-> Absent,
     sampleDistanceMultiplier |-> Absent]

\* renderingEngineRef.current?.destroy()
destroyCurrent(ref, es) ==
    IF Present(ref)
    THEN [es EXCEPT ![ref[1]] = [@ EXCEPT !.destroyed = TRUE,
                                          !.destroyCalls = @ + 1]]
    ELSE es

Init ==
    /\ files \in Selections
    /\ pc = "idle"
    /\ status = "Idle"
    /\ frame = NoFrame
    /\ volume = Absent
    /\ allocated = FALSE
    /\ caught = Absent
    /\ now = 1
    /\ selectedPreset = "CT-AAA"
    /\ renderingEngineRef = Absent
    /\ engines = <<>>
    /\ toolGroup = FALSE
    /\ objectUrls = {}
    /\ mounted = TRUE
    /\ mounts = 1
    /\ elementRef = TRUE
    /\ cursorStyle = "default"
    /\ calls = <<>>
    /\ imageCache = {}
    /\ volumeCache = {}
    /\ isInitialized = TRUE
    /\ initPending = 0
    /\ initBodies = [started |-> 1, finished |-> 1, resolved |-> 1]
    /\ registry = Registered
    /\ presetChanges = 0

\* handleFileUpload up to the await of Promise.all in createVolumeViewport:
\* nothing happens for no files; else the files are ordered by the number
\* in their names, the engine of the last upload is destroyed, a new engine
\* and the tool group are made and the decodes are started.
handleFileUpload ==
    /\ pc = "idle"
    /\ IF Len(files) = 0
       THEN /\ pc' = "done"
            /\ UNCHANGED <<status, frame, engines, toolGroup, objectUrls>>
       ELSE /\ status' = "Loading volume..."
            /\ objectUrls' = objectUrls \cup (1 .. Len(files))
            /\ engines' = Append(destroyCurrent(renderingEngineRef, engines),
                                 NewEngine)
            /\ toolGroup' = TRUE
            /\ frame' = [NoFrame EXCEPT
                            !.volumeId = "vol-" \o ToString(now),
                            !.renderingEngine = Len(engines) + 1,
                            !.selectedPreset = selectedPreset,
                            !.objects = fileObjects(files),
                            !.imageIds = [i \in 1 .. Len(files) |-> ImageId(i)]]
            /\ pc' = "decoding"
    /\ UNCHANGED <<lifeVars, files, volume, allocated, caught, now, selectedPreset,
                   renderingEngineRef>>

\* Promise.all resolves with the decoded images; createVolumeViewport runs
\* on to the await of setVolumesForViewports, or throws into the catch of
\* handleFileUpload, whose finally revokes the object URLs.
decodeResolved ==
    /\ pc = "decoding"
    /\ LET images == [i \in 1 .. Len(frame.imageIds) |->
                        loadAndCacheImage(frame.objects, i)]
           r == assemble(frame.volumeId, frame.imageIds, images, now)
       IN  /\ frame' = [frame EXCEPT !.images = images,
                                      !.sorted = Some(r.sorted)]
           /\ allocated' = r.allocated
           /\ IF r.error = NoError
              THEN /\ volume' = r.volume
                   /\ pc' = "binding"
                   /\ UNCHANGED <<status, caught, objectUrls>>
              ELSE /\ caught' = Some(r.error)
                   /\ status' = "Error"
                   /\ objectUrls' = {}
                   /\ pc' = "done"
                   /\ UNCHANGED volume
    /\ UNCHANGED <<lifeVars, files, now, selectedPreset, renderingEngineRef, engines,
                   toolGroup>>

\* One decode fails: Promise.all rejects and handleFileUpload catches.
decodeRejected ==
    /\ pc = "decoding"
    /\ caught' = Some("DecodeFailure")
    /\ status' = "Error"
    /\ objectUrls' = {}
    /\ pc' = "done"
    /\ UNCHANGED <<lifeVars, files, frame, volume, allocated, now, selectedPreset,
                   renderingEngineRef, engines, toolGroup>>

\* setVolumesForViewports resolves: the viewport shows the volume and gets
\* its blend mode, the preset handed to the call and its interpolation;
\* the engine is returned and stored, and handleFileUpload reports Ready.
setVolumesResolved ==
    /\ pc = "binding"
    /\ engines' = [engines EXCEPT ![frame.renderingEngine] =
                      [@ EXCEPT !.volumeId = Some(frame.volumeId),
                                !.blendMode = Some("COMPOSITE"),
                                !.preset = Some(frame.selectedPreset),
                                !.interpolationType = Some("FAST_LINEAR"),
                                !.sampleDistanceMultiplier = Some(Rat(1, 2))]]
    /\ renderingEngineRef' = Some(frame.renderingEngine)
    /\ status' = "Ready"
    /\ objectUrls' = {}
    /\ pc' = "done"
    /\ UNCHANGED <<lifeVars, files, frame, volume, allocated, caught, now,
                   selectedPreset, toolGroup>>

\* setVolumesForViewports rejects: createVolumeViewport throws after the
\* volume was created, nothing is returned and handleFileUpload catches.
setVolumesRejected ==
    /\ pc = "binding"
    /\ caught' = Some("BindFailure")
    /\ status' = "Error"
    /\ objectUrls' = {}
    /\ pc' = "done"
    /\ UNCHANGED <<lifeVars, files, frame, volume, allocated, now, selectedPreset,
                   renderingEngineRef, engines, toolGroup>>

Next ==
    \/ handleFileUpload
    \/ decodeResolved
    \/ decodeRejected
    \/ setVolumesResolved
    \/ setVolumesRejected

Spec == Init /\ [][Next]_vars

----------------------------------------------------------------------------
\* What the claims speak about.

\* sortImages has returned or thrown in this call.
Sorted == Present(frame.sorted)

\* The decoded slices in the order of their identifiers: the input of the
\* sorter.
InputSlices == frame.images

\* The slices in the order in which the buffer is filled.
SortedSlices == frame.sorted[1].sortedImages

CarriesPlaneTags(img) == Present(img.origin) /\ Present(img.direction)

OnPrimaryPath ==
    /\ Sorted
    /\ Len(InputSlices) >= 2
    /\ \A i \in 1 .. Len(InputSlices) : CarriesPlaneTags(InputSlices[i])

OnFallbackPath == Sorted /\ ~OnPrimaryPath

\* The position of a slice projected on the scan-axis normal, which is the
\* cross product of the first input slice's row and column vectors.
SliceDepth(img) ==
    LET d == InputSlices[1].direction[1]
        normal == <<d[2] * d[6] - d[3] * d[5],
                    d[3] * d[4] - d[1] * d[6],
                    d[1] * d[5] - d[2] * d[4]>>
        p == img.origin[1]
    IN  p[1] * normal[1] + p[2] * normal[2] + p[3] * normal[3]

\* The place of a slice in the input of the sorter.
InputIndex(img) == img.imageId[2]

\* The heights z of the input slices' positions, absent positions left out.
InputHeights ==
    [i \in 1 .. Len(InputSlices) |->
        IF Present(InputSlices[i].origin) THEN InputSlices[i].origin[1][3]
        ELSE -1]

\* C1: on the primary path the fill order is a permutation of the input
\* slices in non-decreasing depth, and slices of equal depth keep their
\* input order.
C1_SortedByDepth ==
    OnPrimaryPath =>
        LET s == SortedSlices
            n == Len(InputSlices)
        IN  /\ Len(s) = n
            /\ \A i \in 1 .. n :
                   Cardinality({r \in 1 .. n : s[r] = InputSlices[i]}) = 1
            /\ \A r, q \in 1 .. n :
                   r < q => SliceDepth(s[r]) <= SliceDepth(s[q])
            /\ \A r, q \in 1 .. n :
                   (r < q /\ SliceDepth(s[r]) = SliceDepth(s[q]))
                      => InputIndex(s[r]) < InputIndex(s[q])

\* Three slices were reordered, two of them of equal depth.
C1_Witness ==
    /\ OnPrimaryPath
    /\ Len(InputSlices) = 3
    /\ SortedSlices /= InputSlices
    /\ \E r, q \in 1 .. 3 :
          r < q /\ SliceDepth(SortedSlices[r]) = SliceDepth(SortedSlices[q])

\* The spacing (last depth - first depth) / (N - 1) of the sorted slices.
AverageSpacing ==
    LET n == Len(SortedSlices)
    IN  Rat(SliceDepth(SortedSlices[n]) - SliceDepth(SortedSlices[1]), n - 1)

\* C2: on the primary path zSpacing is (depth of the last sorted slice -
\* depth of the first sorted slice) / (N - 1), in sortImages' result and in
\* the spacing of the volume.
C2_ZSpacing ==
    OnPrimaryPath =>
        /\ frame.sorted[1].zSpacing = AverageSpacing
        /\ Present(volume) => volume[1].spacing[3] = AverageSpacing

\* Axial slices at heights 30, 10, 20 gave a volume of zSpacing 10.
C2_Witness ==
    /\ OnPrimaryPath
    /\ Present(volume)
    /\ InputHeights = <<30, 10, 20>>
    /\ InputSlices[1].direction = Some(Axial)
    /\ volume[1].spacing[3] = Rat(10, 1)

\* C3: on the primary path the origin is the position of the first sorted
\* slice, which is depth-minimal and fills z-slot 0 of the buffer.
C3_Origin ==
    OnPrimaryPath =>
        LET first == SortedSlices[1]
            size == first.rows * first.columns
        IN  /\ \A i \in 1 .. Len(InputSlices) :
                   SliceDepth(first) <= SliceDepth(InputSlices[i])
            /\ frame.sorted[1].volumeOrigin = first.origin[1]
            /\ Present(volume) =>
                  /\ volume[1].origin = first.origin[1]
                  /\ SubSeq(volume[1].scalarData.elems, 1, size)
                        = getPixelData(first).elems

\* A volume whose origin is not the position of the first input slice.
C3_Witness ==
    /\ OnPrimaryPath
    /\ Present(volume)
    /\ volume[1].origin /= InputSlices[1].origin[1]
    /\ volume[1].origin = SortedSlices[1].origin[1]

\* The fallback of sortImages: input order, the first slice's position or
\* (0, 0, 0), and the z spacing zs.
FallbackResult(zs) ==
    LET first == InputSlices[1]
        o == IF Present(first.origin) THEN first.origin[1] ELSE <<0, 0, 0>>
    IN  /\ SortedSlices = InputSlices
        /\ frame.sorted[1].zSpacing = zs
        /\ frame.sorted[1].volumeOrigin = o
        /\ Present(volume) =>
              /\ volume[1].spacing[3] = zs
              /\ volume[1].origin = o

\* C4 as claimed: on the fallback path zSpacing is the first slice's
\* sliceThickness, or 1 when it is absent.
C4_FallbackAsClaimed ==
    OnFallbackPath =>
        LET t == InputSlices[1].sliceThickness
        IN  FallbackResult(IF Present(t) THEN t[1] ELSE Rat(1, 1))

\* C4 as amended: on the fallback path the slices keep their input order,
\* zSpacing is the first slice's sliceThickness, or 1 when it is absent or
\* zero, and origin is the first slice's position, or (0, 0, 0) when it is
\* absent.
C4_Fallback ==
    OnFallbackPath =>
        LET t == InputSlices[1].sliceThickness
        IN  FallbackResult(IF Present(t) /\ t[1] /= Rat(0, 1) THEN t[1]
                           ELSE Rat(1, 1))

\* A single slice without plane tags and with sliceThickness 2.5 gave a
\* volume of zSpacing 2.5 at origin (0, 0, 0).
C4_Witness ==
    /\ OnFallbackPath
    /\ Present(volume)
    /\ Len(InputSlices) = 1
    /\ ~Present(InputSlices[1].origin)
    /\ ~Present(InputSlices[1].direction)
    /\ InputSlices[1].sliceThickness = Some(Rat(5, 2))
    /\ volume[1].spacing[3] = Rat(5, 2)
    /\ volume[1].origin = <<0, 0, 0>>

\* All slices have the pixel grid of the first.
SameGrid ==
    \A i \in 1 .. Len(InputSlices) :
        /\ InputSlices[i].rows = InputSlices[1].rows
        /\ InputSlices[i].columns = InputSlices[1].columns

\* C5: when the sorter cannot use the primary path, sortImages returns the
\* fallback and throws nothing, and the call is not in the error state for
\* the missing tags: it goes on to create the volume and, unless the
\* viewport binding fails later, reports no error.
C5_FallbackNeverThrows ==
    OnFallbackPath =>
        /\ frame.sorted[1].error = NoError
        /\ Len(SortedSlices) = Len(InputSlices)
        /\ SameGrid =>
            /\ Present(volume)
            /\ caught \in {Absent, Some("BindFailure")}
            /\ caught = Absent => status /= "Error"

\* Several slices, the first without position, were assembled and shown.
C5_Witness ==
    /\ OnFallbackPath
    /\ Len(InputSlices) >= 2
    /\ ~Present(InputSlices[1].origin)
    /\ Present(volume)
    /\ status = "Ready"

\* C6: an upload of no files ends in the error EmptyInput reported to the
\* caller, with no buffer allocated and no volume created.
C6_EmptyInputError ==
    (pc = "done" /\ Len(files) = 0) =>
        /\ caught = Some("EmptyInput")
        /\ status = "Error"
        /\ ~allocated
        /\ volume = Absent

\* C7: when two slices differ in rows or columns the call is rejected with
\* DimensionMismatch before a buffer is allocated, and no volume is made.
C7_DimensionMismatchRejected ==
    (Sorted /\ ~SameGrid) =>
        /\ caught = Some("DimensionMismatch")
        /\ ~allocated
        /\ volume = Absent

\* C8: the buffer of every volume has columns * rows * sliceCount elements
\* for the dimensions handed over with it, which are the columns and rows
\* of the first sorted slice and the number of sorted slices.
C8_BufferLength ==
    Present(volume) =>
        LET d == volume[1].dimensions
        IN  /\ Len(volume[1].scalarData.elems) = d[1] * d[2] * d[3]
            /\ d[1] = SortedSlices[1].columns
            /\ d[2] = SortedSlices[1].rows
            /\ d[3] = Len(SortedSlices)

\* A volume of three slices of 1 row and 4 columns: 12 elements.
C8_Witness ==
    /\ Present(volume)
    /\ volume[1].dimensions = <<4, 1, 3>>
    /\ Len(volume[1].scalarData.elems) = 12

\* C9: in every volume, z-slot i of the buffer holds exactly the samples of
\* the i-th sorted slice: buffer[i * rows * columns + k] is its sample k.
C9_SlotsHoldSlices ==
    Present(volume) =>
        LET d == volume[1].dimensions
            size == d[1] * d[2]
        IN  \A i \in 1 .. Len(SortedSlices) :
                LET samples == getPixelData(SortedSlices[i]).elems
                IN  /\ Len(samples) = size
                    /\ \A k \in 1 .. size :
                          volume[1].scalarData.elems[(i - 1) * size + k]
                             = samples[k]

----------------------------------------------------------------------------
\* Failure of createVolumeViewport.

\* The engine the call made is live.
EngineLive(e) == ~engines[e].destroyed

\* The call has failed: its error is in the catch of handleFileUpload.
CallFailed == pc = "done" /\ Present(caught)

\* C11: when createVolumeViewport has failed at any step, nothing the call
\* made is left: no volume, no live rendering engine of that call, no tool
\* group.
C11_AllOrNothing ==
    CallFailed =>
        /\ volume = Absent
        /\ ~EngineLive(frame.renderingEngine)
        /\ ~toolGroup

----------------------------------------------------------------------------
\* The geometry and the metadata of the volume.

\* The created volume and the first sorted slice it was made from.
Created == volume[1]

FirstSorted == SortedSlices[1]

\* A number n / d with d > 0.
Positive(q) == q[1] > 0

\* C13: the three spacing components of every created volume are strictly
\* positive.
C13_SpacingPositive ==
    Present(volume) =>
        \A k \in 1 .. 3 : Positive(Created.spacing[k])

Row(m, k) == SubSeq(m, 3 * k - 2, 3 * k)

\* The rows of a 3x3 matrix are unit vectors at right angles.
Orthonormal(m) ==
    \A j \in 1 .. 3 : \A k \in 1 .. 3 :
        Dot(Row(m, j), Row(m, k)) = IF j = k THEN 1 ELSE 0

\* C14: the direction of every created volume is the identity when the
\* first sorted slice has no orientation, and else the row vector and the
\* column vector of that slice and their cross product, with unit rows at
\* right angles.
C14_Direction ==
    Present(volume) =>
        LET direction == Created.direction.elems
        IN  IF ~Present(FirstSorted.direction)
            THEN direction = IdentityMat3
            ELSE LET row == Row(FirstSorted.direction[1], 1)
                     col == Row(FirstSorted.direction[1], 2)
                 IN  /\ direction = row \o col \o Cross(row, col)
                     /\ Orthonormal(direction)

\* The value of a descriptive field: the one the slice carries, else the
\* constant of the field.
CarriedOr(x, dflt) == IF Present(x) THEN x[1] ELSE dflt

\* C15: each descriptive field of the metadata is the value the first
\* sorted slice carries, a carried 0 included, and else the constant of
\* that field, the same at every time of the call.
C15_MetadataDefaults ==
    Present(volume) =>
        LET m == Created.metadata
            image0 == FirstSorted
        IN  /\ m.Modality = CarriedOr(image0.modality, "CT")
            /\ m.BitsAllocated = CarriedOr(image0.bitsAllocated, 16)
            /\ m.BitsStored = CarriedOr(image0.bitsStored, 12)
            /\ m.HighBit = CarriedOr(image0.highBit, 11)
            /\ m.PixelRepresentation =
                    CarriedOr(image0.pixelRepresentation, 0)
            /\ m.PhotometricInterpretation =
                    CarriedOr(image0.photometricInterpretation, "MONOCHROME2")
            /\ m.FrameOfReferenceUID =
                    CarriedOr(image0.frameOfReferenceUID,
                              volumeMetadata(image0, now + 1).FrameOfReferenceUID)

----------------------------------------------------------------------------
\* The component over its lifetime.  Spec above follows one upload of every
\* kind of selection, with Promise.all as one step and without the
\* library's caches.  MountSpec below follows the mounts and unmounts of
\* the component with the initialization of the library; LifeSpec follows
\* the mounted component through several uploads that may overlap, each
\* decode a step of its own, over a few selections, the user's changes of
\* the preset, and its unmount.

\* What the user does in a run: mounting the component, choosing files and
\* choosing a preset are MaxEvents events at most.
MaxEvents == 3

Events == mounts + Len(calls) + presetChanges

\* The locals of the one upload that Spec follows.
pipeVars == <<files, pc, frame, volume, allocated, caught>>

\* A slice at height z with all its tags, and one without its position.
LifeSlice(z) == [BaseFile EXCEPT !.origin = Some(PositionAt(z))]

Unplaced == [BaseFile EXCEPT !.origin = Absent]

\* Two slices given from the top down (sorted by depth), two slices without
\* position (sorted by the fallback).
LifeSelections ==
    {WithSeeds(fs) :
        fs \in {<<LifeSlice(20), LifeSlice(10)>>, <<Unplaced, Unplaced>>}}

\* URL.createObjectURL: the URL of the i-th file of the c-th upload.
ObjectUrl(c, i) == <<c, i>>

\* The locals of a run of handleFileUpload and of its createVolumeViewport.
NoCall ==
    [owner |-> 0, pc |-> "done", loading |-> FALSE, started |-> FALSE,
     objects |-> <<>>, imageIds |-> <<>>, volumeId |-> "",
     renderingEngine |-> 0, selectedPreset |-> "",
     loaded |-> <<>>, rejected |-> {}, sorted |-> Absent,
     allocated |-> FALSE, volume |-> Absent, caught |-> Absent]

MountInit ==
    /\ files = <<>>
    /\ pc = "done"
    /\ frame = NoFrame
    /\ volume = Absent
    /\ allocated = FALSE
    /\ caught = Absent
    /\ status = "Idle"
    /\ now = 1
    /\ selectedPreset = "CT-AAA"
    /\ renderingEngineRef = Absent
    /\ engines = <<>>
    /\ toolGroup = FALSE
    /\ objectUrls = {}
    /\ mounted = FALSE
    /\ mounts = 0
    /\ elementRef = FALSE
    /\ cursorStyle = "default"
    /\ calls = <<>>
    /\ imageCache = {}
    /\ volumeCache = {}
    /\ isInitialized = FALSE
    /\ initPending = 0
    /\ initBodies = [started |-> 0, finished |-> 0, resolved |-> 0]
    /\ registry = NoRegistry
    /\ presetChanges = 0

\* initCornerstone up to its await: a call after the latch is set returns
\* (its promise resolves), the first call sets the latch and starts
\* coreInit.
initCornerstone_NoLatch ==
    /\ initPending' = initPending + 1
    /\ initBodies' = [initBodies EXCEPT !.started = @ + 1]
    /\ UNCHANGED isInitialized

initCornerstone ==
    IF isInitialized
    THEN /\ initBodies' = [initBodies EXCEPT !.resolved = @ + 1]
         /\ UNCHANGED <<isInitialized, initPending>>
    ELSE /\ isInitialized' = TRUE
         /\ initPending' = initPending + 1
         /\ initBodies' = [initBodies EXCEPT !.started = @ + 1]

\* coreInit resolves: the rest of the body of initCornerstone runs
\* (toolsInit, the loader's configuration, the registrations, addTool)
\* and the promise of the call resolves.
coreInitResolved ==
    /\ initPending > 0
    /\ initPending' = initPending - 1
    /\ initBodies' = [initBodies EXCEPT !.finished = @ + 1,
                                        !.resolved = @ + 1]
    /\ registry' =
          [imageLoaders |-> registry.imageLoaders \cup {"wadouri"},
           unknownVolumeLoader |-> TRUE,
           tools |-> registry.tools \cup {"TrackballRotate", "Zoom", "Pan"}]
    /\ UNCHANGED <<pipeVars, status, now, selectedPreset, renderingEngineRef,
                   engines, toolGroup, objectUrls, mounted, mounts,
                   elementRef, cursorStyle, calls, imageCache, volumeCache,
                   isInitialized, presetChanges>>

\* coreInit rejects: initCornerstone throws, the mount effect logs it.
coreInitRejected ==
    /\ initPending > 0
    /\ initPending' = initPending - 1
    /\ UNCHANGED <<pipeVars, status, now, selectedPreset, renderingEngineRef,
                   engines, toolGroup, objectUrls, mounted, mounts,
                   elementRef, cursorStyle, calls, imageCache, volumeCache, isInitialized,
                   initBodies,
                   presetChanges, registry>>

\* The component is mounted: fresh state and refs, the renderer attaches
\* the viewport element to elementRef or (a renderer without host nodes)
\* leaves it null, and the mount effect calls initCornerstone.  The preset
\* effect finds no engine and returns.
mount ==
    /\ ~mounted
    /\ Events < MaxEvents
    /\ mounted' = TRUE
    /\ mounts' = mounts + 1
    /\ \E attached \in BOOLEAN : elementRef' = attached
    /\ status' = "Idle"
    /\ cursorStyle' = "default"
    /\ selectedPreset' = "CT-AAA"
    /\ renderingEngineRef' = Absent
    /\ initCornerstone
    /\ UNCHANGED <<pipeVars, now, engines, toolGroup, objectUrls, calls,
                   imageCache, volumeCache,
                   presetChanges, registry>>

\* The component is unmounted: the cleanup of the mount effect.
unmount ==
    /\ mounted
    /\ mounted' = FALSE
    /\ elementRef' = FALSE
    /\ engines' = destroyCurrent(renderingEngineRef, engines)
    /\ toolGroup' = FALSE
    /\ imageCache' = {}
    /\ volumeCache' = {}
    /\ UNCHANGED <<pipeVars, status, now, selectedPreset, renderingEngineRef,
                   objectUrls, mounts, cursorStyle, calls, isInitialized,
                   initPending, initBodies,
                   presetChanges, registry>>

\* handleMouseDown: the cursor of the interaction the press starts, the
\* modifier keys before the buttons.
handleMouseDown ==
    /\ mounted
    /\ \E shiftKey \in BOOLEAN, ctrlKey \in BOOLEAN, button \in 0 .. 3 :
        cursorStyle' =
            IF shiftKey THEN "panActive"
            ELSE IF ctrlKey THEN "zoomActive"
            ELSE IF button = 0 THEN "rotate"
            ELSE IF button = 1 THEN "panActive"
            ELSE IF button = 2 THEN "zoomActive"
            ELSE cursorStyle
    /\ UNCHANGED <<pipeVars, status, now, selectedPreset, renderingEngineRef,
                   engines, toolGroup, objectUrls, mounted, mounts,
                   elementRef, calls, imageCache, volumeCache, isInitialized,
                   initPending, initBodies,
                   presetChanges, registry>>

\* handleMouseUp, also on mouse leave.
handleMouseUp ==
    /\ mounted
    /\ cursorStyle' = "default"
    /\ UNCHANGED <<pipeVars, status, now, selectedPreset, renderingEngineRef,
                   engines, toolGroup, objectUrls, mounted, mounts,
                   elementRef, calls, imageCache, volumeCache, isInitialized,
                   initPending, initBodies,
                   presetChanges, registry>>

\* setStatus from a run of handleFileUpload: React keeps the state of the
\* mounted component and drops an update of an unmounted one.
setStatus(call, value) ==
    IF mounted /\ call.owner = mounts THEN value ELSE status

\* The finally of handleFileUpload: every object URL of the run is revoked.
revokeObjectURLs(c) == {u \in objectUrls : u[1] /= c}

\* The decodes of a run that have not settled.
Pending(call) ==
    {i \in 1 .. Len(call.imageIds) :
        /\ i \notin call.rejected
        /\ \A k \in 1 .. Len(call.loaded) : call.loaded[k] /= i}

\* handleFileUpload up to the await of Promise.all in createVolumeViewport,
\* as in Spec, for a selection of the user's, with the return when the
\* viewport element is not attached.  The user's next event comes at a
\* later time.
uploadStarted ==
    /\ mounted
    /\ Events < MaxEvents
    /\ \E fs \in LifeSelections :
        LET c == Len(calls) + 1
            call == [NoCall EXCEPT !.owner = mounts]
        IN  IF Len(fs) = 0
            THEN /\ calls' = Append(calls, call)
                 /\ UNCHANGED <<status, engines, toolGroup, objectUrls>>
            ELSE /\ status' = "Loading volume..."
                 /\ IF ~elementRef
                    THEN /\ calls' = Append(calls,
                                [call EXCEPT !.loading = TRUE,
                                             !.objects = fileObjects(fs)])
                         /\ UNCHANGED <<engines, toolGroup, objectUrls>>
                    ELSE /\ engines' =
                            Append(destroyCurrent(renderingEngineRef, engines),
                                   NewEngine)
                         /\ toolGroup' = TRUE
                         /\ objectUrls' = objectUrls \cup
                                {ObjectUrl(c, i) : i \in 1 .. Len(fs)}
                         /\ calls' = Append(calls,
                                [call EXCEPT
                                    !.loading = TRUE,
                                    !.started = TRUE,
                                    !.pc = "decoding",
                                    !.objects = fileObjects(fs),
                                    !.imageIds =
                                        [i \in 1 .. Len(fs) |-> ImageId(i)],
                                    !.volumeId = "vol-" \o ToString(now),
                                    !.renderingEngine = Len(engines) + 1,
                                    !.selectedPreset = selectedPreset])
    /\ now' = now + 1
    /\ UNCHANGED <<pipeVars, selectedPreset, renderingEngineRef, mounted,
                   mounts, elementRef, cursorStyle, imageCache, volumeCache, isInitialized,
                   initPending, initBodies,
                   presetChanges, registry>>

\* imageLoader.loadAndCacheImage resolves for one file of a run: the image
\* is decoded and in the cache.
loadResolved ==
    \E c \in DOMAIN calls : \E i \in Pending(calls[c]) :
        /\ calls' = [calls EXCEPT ![c].loaded = Append(@, i)]
        /\ imageCache' = imageCache \cup {ObjectUrl(c, i)}
        /\ UNCHANGED <<pipeVars, status, now, selectedPreset,
                       renderingEngineRef, engines, toolGroup, objectUrls,
                       mounted, mounts, elementRef, cursorStyle, volumeCache,
                       isInitialized, initPending, initBodies,
                   presetChanges, registry>>

\* imageLoader.loadAndCacheImage rejects for one file of a run that waits
\* for its decodes: Promise.all rejects, createVolumeViewport throws and
\* handleFileUpload catches.
loadRejected ==
    \E c \in DOMAIN calls : \E i \in Pending(calls[c]) :
        /\ calls[c].pc = "decoding"
        /\ calls' = [calls EXCEPT ![c] =
                        [@ EXCEPT !.rejected = @ \cup {i},
                                  !.caught = Some("DecodeFailure"),
                                  !.pc = "done"]]
        /\ status' = setStatus(calls[c], "Error")
        /\ objectUrls' = revokeObjectURLs(c)
        /\ UNCHANGED <<pipeVars, now, selectedPreset, renderingEngineRef,
                       engines, toolGroup, mounted, mounts, elementRef, cursorStyle,
                       imageCache, volumeCache, isInitialized, initPending,
                       initBodies,
                   presetChanges, registry>>

\* Promise.all resolves when every decode of the run has resolved,
allDecoded_AnyDecoded(call) == Len(call.loaded) >= 1

allDecoded(call) == Len(call.loaded) = Len(call.imageIds)

\* with the images in the order of the imageIds, whatever the order the
\* decodes resolved in.
promiseAll_CompletionOrder(objects, imageIds, loaded) ==
    [k \in 1 .. Len(imageIds) |-> loadAndCacheImage(objects, loaded[k])]

promiseAll(objects, imageIds, loaded) ==
    [i \in 1 .. Len(imageIds) |-> loadAndCacheImage(objects, i)]

\* Promise.all of a run resolves: createVolumeViewport runs on to the await
\* of setVolumesForViewports, as decodeResolved of Spec, and the volume it
\* creates is in the cache.  The run holds the decodes in the order of its
\* imageIds from here on: the order they resolved in is gone.
decodesJoined ==
    \E c \in DOMAIN calls :
        LET call == calls[c]
            images == promiseAll(call.objects, call.imageIds, call.loaded)
            resolvedOrder == [i \in 1 .. Len(call.loaded) |-> i]
            r == assemble(call.volumeId, call.imageIds, images, now)
        IN  /\ call.pc = "decoding"
            /\ allDecoded(call)
            /\ IF r.error = NoError
               THEN /\ calls' = [calls EXCEPT ![c] =
                                    [@ EXCEPT !.loaded = resolvedOrder,
                                              !.sorted = Some(r.sorted),
                                              !.allocated = r.allocated,
                                              !.volume = r.volume,
                                              !.pc = "binding"]]
                    /\ volumeCache' = volumeCache \cup {call.volumeId}
                    /\ UNCHANGED <<status, objectUrls>>
               ELSE /\ calls' = [calls EXCEPT ![c] =
                                    [@ EXCEPT !.loaded = resolvedOrder,
                                              !.sorted = Some(r.sorted),
                                              !.allocated = r.allocated,
                                              !.caught = Some(r.error),
                                              !.pc = "done"]]
                    /\ status' = setStatus(call, "Error")
                    /\ objectUrls' = revokeObjectURLs(c)
                    /\ UNCHANGED volumeCache
            /\ UNCHANGED <<pipeVars, now, selectedPreset, renderingEngineRef,
                           engines, toolGroup, mounted, mounts, elementRef, cursorStyle,
                           imageCache, isInitialized, initPending, initBodies,
                   presetChanges, registry>>

\* setVolumesForViewports of a run resolves: as setVolumesResolved of Spec;
\* the engine is stored in the ref of the component the run belongs to.
bindResolved ==
    \E c \in DOMAIN calls :
        LET call == calls[c]
        IN  /\ call.pc = "binding"
            /\ engines' = [engines EXCEPT ![call.renderingEngine] =
                  [@ EXCEPT !.volumeId = Some(call.volumeId),
                            !.blendMode = Some("COMPOSITE"),
                            !.preset = Some(call.selectedPreset),
                            !.interpolationType = Some("FAST_LINEAR"),
                            !.sampleDistanceMultiplier = Some(Rat(1, 2))]]
            /\ renderingEngineRef' =
                    IF call.owner = mounts THEN Some(call.renderingEngine)
                    ELSE renderingEngineRef
            /\ status' = setStatus(call, "Ready")
            /\ objectUrls' = revokeObjectURLs(c)
            /\ calls' = [calls EXCEPT ![c].pc = "done"]
            /\ UNCHANGED <<pipeVars, now, selectedPreset, toolGroup, mounted,
                           mounts, elementRef, cursorStyle, imageCache, volumeCache,
                           isInitialized, initPending, initBodies,
                   presetChanges, registry>>

\* setVolumesForViewports of a run rejects: as setVolumesRejected of Spec.
bindRejected ==
    \E c \in DOMAIN calls :
        /\ calls[c].pc = "binding"
        /\ calls' = [calls EXCEPT ![c] =
                        [@ EXCEPT !.caught = Some("BindFailure"),
                                  !.pc = "done"]]
        /\ status' = setStatus(calls[c], "Error")
        /\ objectUrls' = revokeObjectURLs(c)
        /\ UNCHANGED <<pipeVars, now, selectedPreset, renderingEngineRef,
                       engines, toolGroup, mounted, mounts, elementRef, cursorStyle,
                       imageCache, volumeCache, isInitialized, initPending,
                       initBodies,
                   presetChanges, registry>>

\* The presets of the library's table that the user chooses between.
Presets == {"CT-AAA", "CT-Bone"}

\* updateViewportPreset: nothing without an engine or without its viewport
\* (a destroyed engine has none); else the blend mode, the preset and the
\* interpolation of the viewport are set.
updateViewportPreset(renderingEngine, preset, es) ==
    IF ~Present(renderingEngine) THEN es
    ELSE IF es[renderingEngine[1]].destroyed
    THEN [es EXCEPT ![renderingEngine[1]].updatedAfterDestroy = TRUE]
    ELSE [es EXCEPT ![renderingEngine[1]] =
            [@ EXCEPT !.blendMode = Some("COMPOSITE"),
                      !.preset = Some(preset),
                      !.interpolationType = Some("NEAREST")]]

\* The user chooses another preset: setSelectedPreset, and the preset
\* effect hands the engine in the ref and the new preset to
\* updateViewportPreset.
setSelectedPreset ==
    /\ mounted
    /\ Events < MaxEvents
    /\ presetChanges' = presetChanges + 1
    /\ \E preset \in Presets \ {selectedPreset} :
        /\ selectedPreset' = preset
        /\ engines' = updateViewportPreset(renderingEngineRef, preset, engines)
    /\ UNCHANGED <<pipeVars, status, now, renderingEngineRef, toolGroup,
                   objectUrls, mounted, mounts, elementRef, cursorStyle,
                   calls, imageCache, volumeCache, isInitialized,
                   initPending, initBodies, registry>>

\* The component is mounted and unmounted, the pointer is used over the
\* viewport, the library is initialized.
MountNext ==
    \/ mount
    \/ unmount
    \/ coreInitResolved
    \/ coreInitRejected
    \/ handleMouseDown
    \/ handleMouseUp

MountSpec == MountInit /\ [][MountNext]_vars

\* The mounted component, the library initialized: files are uploaded and
\* presets chosen until the component is unmounted, and what is in flight
\* then runs on.
LifeInit ==
    /\ files = <<>>
    /\ pc = "done"
    /\ frame = NoFrame
    /\ volume = Absent
    /\ allocated = FALSE
    /\ caught = Absent
    /\ status = "Idle"
    /\ now = 1
    /\ selectedPreset = "CT-AAA"
    /\ renderingEngineRef = Absent
    /\ engines = <<>>
    /\ toolGroup = FALSE
    /\ objectUrls = {}
    /\ mounted = TRUE
    /\ mounts = 1
    /\ elementRef \in BOOLEAN
    /\ cursorStyle = "default"
    /\ calls = <<>>
    /\ imageCache = {}
    /\ volumeCache = {}
    /\ isInitialized = TRUE
    /\ initPending = 0
    /\ initBodies = [started |-> 1, finished |-> 1, resolved |-> 1]
    /\ registry = Registered
    /\ presetChanges = 0

LifeNext ==
    \/ unmount
    \/ uploadStarted
    \/ loadResolved
    \/ loadRejected
    \/ decodesJoined
    \/ bindResolved
    \/ bindRejected
    \/ setSelectedPreset

LifeSpec == LifeInit /\ [][LifeNext]_vars

----------------------------------------------------------------------------
\* The join of the decodes.

\* The run has sorted, allocated its buffer or created its volume.
Assembling(call) ==
    Present(call.sorted) \/ call.allocated \/ Present(call.volume)

\* C12: a run sorts, allocates and creates its volume only when every
\* decode of the run has resolved; a run one of whose decodes has failed has
\* failed with that error and has not sorted, allocated or created a
\* volume.
C12_DecodeJoin ==
    \A c \in DOMAIN calls :
        LET call == calls[c]
        IN  /\ Assembling(call) =>
                /\ Len(call.loaded) = Len(call.imageIds)
                /\ call.rejected = {}
            /\ call.rejected /= {} =>
                /\ call.caught = Some("DecodeFailure")
                /\ call.pc = "done"
                /\ ~Assembling(call)

\* One upload of two slices has created its volume; in another upload of
\* two slices one decode resolved and the other failed.
C12_Witness ==
    /\ \E c \in DOMAIN calls :
        /\ Len(calls[c].imageIds) = 2
        /\ Present(calls[c].volume)
    /\ \E c \in DOMAIN calls :
        /\ Len(calls[c].loaded) = 1
        /\ calls[c].rejected /= {}

----------------------------------------------------------------------------
\* Determinism.

\* The order a run has put its slices in, and the buffer it has filled.
SliceOrder(call) ==
    [k \in 1 .. Len(call.sorted[1].sortedImages) |->
        call.sorted[1].sortedImages[k].imageId]

Buffer(call) == call.volume[1].scalarData

\* Two runs were given the same files in the same order.
SameInput(a, b) == a.objects = b.objects /\ a.imageIds = b.imageIds

\* C16: two runs on the same files that have created their volumes have put
\* the slices in the same order and filled equal buffers, whenever each run
\* started and in whatever order its decodes resolved.
C16_Deterministic ==
    \A c \in DOMAIN calls : \A d \in DOMAIN calls :
        (/\ SameInput(calls[c], calls[d])
         /\ Present(calls[c].volume)
         /\ Present(calls[d].volume)) =>
            /\ SliceOrder(calls[c]) = SliceOrder(calls[d])
            /\ Buffer(calls[c]) = Buffer(calls[d])

\* Two runs at different times on the same two files without position have
\* created their volumes.
C16_Witness ==
    \E c \in DOMAIN calls : \E d \in DOMAIN calls :
        /\ c /= d
        /\ SameInput(calls[c], calls[d])
        /\ Len(calls[c].imageIds) = 2
        /\ ~Present(calls[c].objects[1].origin)
        /\ calls[c].volumeId /= calls[d].volumeId
        /\ Present(calls[c].volume)
        /\ Present(calls[d].volume)

----------------------------------------------------------------------------
\* What is left after the uploads and after the unmount.

\* Every run of handleFileUpload has finished.
AllDone == \A c \in DOMAIN calls : calls[c].pc = "done"

LiveEngines == {e \in DOMAIN engines : ~engines[e].destroyed}

\* C17: when every upload has run to completion, at most one rendering
\* engine is live, the one in renderingEngineRef, and at most one volume is
\* held.
C17_NoLeak ==
    AllDone =>
        /\ \A e \in LiveEngines : renderingEngineRef = Some(e)
        /\ Cardinality(LiveEngines) <= 1
        /\ Cardinality(volumeCache) <= 1

\* A run that set the status to 'Loading volume...' and has finished.
FinishedLoading(call) == call.loading /\ call.pc = "done"

\* C18: once every upload that set the status to 'Loading volume...' has
\* finished, the status of the mounted component is 'Ready' or 'Error'.
C18_StatusSettles ==
    (/\ mounted
     /\ AllDone
     /\ \E c \in DOMAIN calls : FinishedLoading(calls[c])) =>
        status \in {"Ready", "Error"}

\* C19: after the unmount, with every upload finished, no rendering engine
\* is live, the tool group is destroyed and the cache holds no image.
C19_UnmountCleans ==
    (~mounted /\ AllDone) =>
        /\ LiveEngines = {}
        /\ ~toolGroup
        /\ imageCache = {}

----------------------------------------------------------------------------
\* The initialization of the library.

\* C20: however often the component is mounted and however the calls of
\* initCornerstone interleave with coreInit, the body of initCornerstone is
\* started at most once and its part after coreInit runs at most once.
C20_InitOnce ==
    /\ initBodies.started <= 1
    /\ initBodies.finished <= 1
    /\ initPending <= 1

\* The component was mounted a second time, calling initCornerstone again,
\* while the first call was still waiting for coreInit.
C20_Witness ==
    /\ mounts >= 2
    /\ initPending = 1
    /\ initBodies.started = 1

----------------------------------------------------------------------------
\* The presets.

\* The engines whose viewport shows a volume.
Displaying == {e \in DOMAIN engines :
                  EngineLive(e) /\ Present(engines[e].volumeId)}

\* C21: the interpolation of the viewport is FAST_LINEAR whenever a volume
\* is displayed: set when the volume is loaded, and still so after any
\* sequence of preset changes.
C21_FastLinear ==
    \A e \in Displaying : engines[e].interpolationType = Some("FAST_LINEAR")

\* The engine in the ref of the mounted component shows a volume.
RefDisplays ==
    /\ mounted
    /\ Present(renderingEngineRef)
    /\ renderingEngineRef[1] \in Displaying

\* C23: whenever a volume is displayed and no upload is in progress, the
\* preset applied to the viewport is the selected preset, for every
\* interleaving of preset changes with uploads, a preset change made while
\* an upload is loading included.
C23_PresetApplied ==
    (RefDisplays /\ AllDone) =>
        engines[renderingEngineRef[1]].preset = Some(selectedPreset)

----------------------------------------------------------------------------
\* The engine in the ref.

\* C24: while the component is mounted renderingEngineRef never holds an
\* engine that was destroyed: after any sequence of uploads, one whose
\* createVolumeViewport fails included, destroy() is not called a second
\* time on an engine and updateViewportPreset is not applied to a destroyed
\* engine.
C24_RefLive ==
    /\ (mounted /\ Present(renderingEngineRef)) =>
            EngineLive(renderingEngineRef[1])
    /\ \A e \in DOMAIN engines :
            /\ engines[e].destroyCalls <= 1
            /\ ~engines[e].updatedAfterDestroy

----------------------------------------------------------------------------
\* The completion of initCornerstone.

\* C22: whenever a call of initCornerstone has completed (its promise
\* resolved), the initialization is complete: the wadouri image loader and
\* the volume loader are registered and the three tools are added; for a
\* call made while an earlier one waits for coreInit and for a call made
\* after an earlier one failed as well.
C22_ResolvedMeansReady ==
    initBodies.resolved > 0 => registry = Registered

====
